---------------------------- MODULE Spec2Model ----------------------------
(***************************************************************************)
(* A model of the housing dashboard's data pipeline                        *)
(* (utils/data_loader.py) and of the script that drives it (app.py).       *)
(*                                                                         *)
(* Strings the code inspects character by character (column names, date    *)
(* strings) are sequences of one-character strings.  A pandas DataFrame    *)
(* is a sequence of records, one record per row, one field per column.     *)
(* Floating-point results are exact rationals extended with the IEEE       *)
(* values inf and NaN (rounding is not modelled); a pandas null is NaN.    *)
(***************************************************************************)
EXTENDS Integers, Sequences, FiniteSets, TLC

VARIABLES
    file,       \* the CSV at DATA_DIR/zhvi_by_state.csv: absent, unreadable or a raw table
    t,          \* the long table handed to the library functions
    stage,      \* library session: the functions applied so far
    args,       \* library session: the arguments of the filter_data call
    given,      \* library session: the table the last call was given
    result,     \* library session: what the last call returned or raised
    pc,         \* app.py: the position of the script
    df,         \* app.py: df, what get_data() returned or raised
    selection,  \* app.py: what the sidebar widgets returned
    filtered_df,\* app.py: filtered_df
    yoy_df,     \* app.py: yoy_df
    trail       \* app.py: the steps the script has run, in order

vars == <<file, t, stage, args, given, result, pc, df, selection, filtered_df, yoy_df, trail>>

----------------------------------------------------------------------------
(* Bounds of the model.                                                    *)

\* Most monthly date columns / rows of the first region of a table.
MaxRows == 14
\* Most rows of the second region of a table.
MaxRows2 == 2

----------------------------------------------------------------------------
(* Optional values (Python's None) and characters.                         *)

None == <<>>
Some(x) == <<x>>
IsNone(o) == o = <<>>
Get(o) == o[1]

Digits == <<"0", "1", "2", "3", "4", "5", "6", "7", "8", "9">>
IsDigit(c) == \E i \in 1..10 : Digits[i] = c
DigitVal(c) == (CHOOSE i \in 1..10 : Digits[i] = c) - 1
DigitChar(n) == Digits[n + 1]

\* "%04d" and "%02d"
Pad4(n) == <<DigitChar(n \div 1000), DigitChar((n \div 100) % 10),
             DigitChar((n \div 10) % 10), DigitChar(n % 10)>>
Pad2(n) == <<DigitChar((n \div 10) % 10), DigitChar(n % 10)>>

\* A date (a pandas Timestamp at midnight) is the number yyyymmdd, whose
\* order is the chronological order.
MkDate(y, m, d) == y * 10000 + m * 100 + d
YearOf(d) == d \div 10000
MonthOf(d) == (d \div 100) % 100
DayOf(d) == d % 100

IsLeap(y) == (y % 4 = 0 /\ y % 100 # 0) \/ y % 400 = 0
DaysIn(y, m) ==
    IF m = 2 THEN (IF IsLeap(y) THEN 29 ELSE 28)
    ELSE IF m \in {4, 6, 9, 11} THEN 30 ELSE 31

\* The name of a month column, "2004-01-31".
IsoName(d) == Pad4(YearOf(d)) \o <<"-">> \o Pad2(MonthOf(d)) \o <<"-">> \o Pad2(DayOf(d))

\* str(datetime) of a midnight datetime: "2004-01-31 00:00:00".
StrOfDatetime(d) == IsoName(d) \o <<" ", "0", "0", ":", "0", "0", ":", "0", "0">>

\* pd.to_datetime of one string.  The grammar is restricted to the two
\* shapes the data and the app produce, "YYYY-MM-DD" and
\* "YYYY-MM-DD 00:00:00"; any other string of the model's inputs is one
\* pandas rejects with a ValueError, here the result "bad".
IsIsoShape(s) ==
    /\ Len(s) \in {10, 19}
    /\ \A i \in {1, 2, 3, 4, 6, 7, 9, 10} : IsDigit(s[i])
    /\ s[5] = "-" /\ s[8] = "-"
    /\ Len(s) = 19 => SubSeq(s, 11, 19) = <<" ", "0", "0", ":", "0", "0", ":", "0", "0">>

ParsedYear(s) == DigitVal(s[1]) * 1000 + DigitVal(s[2]) * 100 + DigitVal(s[3]) * 10 + DigitVal(s[4])
ParsedMonth(s) == DigitVal(s[6]) * 10 + DigitVal(s[7])
ParsedDay(s) == DigitVal(s[9]) * 10 + DigitVal(s[10])

CanParse(s) ==
    /\ IsIsoShape(s)
    /\ ParsedYear(s) >= 1
    /\ ParsedMonth(s) \in 1..12
    /\ ParsedDay(s) \in 1..DaysIn(ParsedYear(s), ParsedMonth(s))

to_datetime(s) == MkDate(ParsedYear(s), ParsedMonth(s), ParsedDay(s))

----------------------------------------------------------------------------
(* The Region Code Registry.                                               *)

STATE_CODES ==
    [Alabama |-> "AL", Alaska |-> "AK", Arizona |-> "AZ", Arkansas |-> "AR",
     California |-> "CA", Colorado |-> "CO", Connecticut |-> "CT",
     Delaware |-> "DE", Florida |-> "FL", Georgia |-> "GA", Hawaii |-> "HI",
     Idaho |-> "ID", Illinois |-> "IL", Indiana |-> "IN", Iowa |-> "IA",
     Kansas |-> "KS", Kentucky |-> "KY", Louisiana |-> "LA", Maine |-> "ME",
     Maryland |-> "MD", Massachusetts |-> "MA", Michigan |-> "MI",
     Minnesota |-> "MN", Mississippi |-> "MS", Missouri |-> "MO",
     Montana |-> "MT", Nebraska |-> "NE", Nevada |-> "NV", Ohio |-> "OH",
     Oklahoma |-> "OK", Oregon |-> "OR", Pennsylvania |-> "PA",
     Tennessee |-> "TN", Texas |-> "TX", Utah |-> "UT", Vermont |-> "VT",
     Virginia |-> "VA", Washington |-> "WA", Wisconsin |-> "WI",
     Wyoming |-> "WY", Guam |-> "GU"]
    @@ ("New Hampshire" :> "NH") @@ ("New Jersey" :> "NJ")
    @@ ("New Mexico" :> "NM") @@ ("New York" :> "NY")
    @@ ("North Carolina" :> "NC") @@ ("North Dakota" :> "ND")
    @@ ("Rhode Island" :> "RI") @@ ("South Carolina" :> "SC")
    @@ ("South Dakota" :> "SD") @@ ("West Virginia" :> "WV")
    @@ ("District of Columbia" :> "DC") @@ ("American Samoa" :> "AS")
    @@ ("Northern Mariana Islands" :> "MP") @@ ("Puerto Rico" :> "PR")
    @@ ("United States Minor Outlying Islands" :> "UM")
    @@ ("Virgin Islands, U.S." :> "VI")

\* The null a pandas object column holds where Series.map found no key.
NaNCode == "<NaN>"


----------------------------------------------------------------------------
(* Numbers.  A float64 is the exact rational n/d in lowest terms with       *)
(* d > 0, or an IEEE infinity, or NaN (which pandas reads as null).  The    *)
(* value columns hold rationals or NaN; the infinities arise by division.   *)

NaN == [k |-> "nan"]
Inf(s) == [k |-> "inf", s |-> s]
Abs(n) == IF n < 0 THEN -n ELSE n
Sign(n) == IF n < 0 THEN -1 ELSE IF n > 0 THEN 1 ELSE 0

RECURSIVE Gcd(_, _)
Gcd(a, b) == IF b = 0 THEN a ELSE Gcd(b, a % b)

Fin(n, d) ==
    LET g == Gcd(Abs(n), Abs(d))
    IN  [k |-> "fin", n |-> (Sign(d) * n) \div g, d |-> Abs(d) \div g]

Float(v) == Fin(v, 1)

\* x / y as numpy divides two float64 columns: NaN propagates, x/0 is
\* +-inf, 0/0 is NaN.  (x and y are values of the file: rationals or NaN.)
FDiv(x, y) ==
    IF x.k = "nan" \/ y.k = "nan" THEN NaN
    ELSE IF y.n = 0 THEN (IF x.n = 0 THEN NaN ELSE Inf(Sign(x.n)))
    ELSE Fin(x.n * y.d, x.d * y.n)

\* x - c and x * c for an int c > 0: NaN and the infinities absorb.
FSub(x, c) == IF x.k = "fin" THEN Fin(x.n - c * x.d, x.d) ELSE x
FMul(x, c) == IF x.k = "fin" THEN Fin(x.n * c, x.d) ELSE x

isnull(x) == x.k = "nan"

----------------------------------------------------------------------------
(* Tables.                                                                  *)

\* Python's order on the region names the model uses (str.__lt__ compares
\* code points: "C" < "N" < "X", and "New Yo" < "New Yr").
NameOrder == <<"California", "New York", "New Yrok", "X">>
NameRank(s) == CHOOSE i \in 1..Len(NameOrder) : NameOrder[i] = s
StrLess(a, b) == NameRank(a) < NameRank(b)

\* df[mask]: the rows whose mask is true, in their order.
RECURSIVE Take(_, _)
Take(frame, keep) ==
    IF frame = <<>> THEN <<>>
    ELSE IF keep[1] THEN <<Head(frame)>> \o Take(Tail(frame), Tail(keep))
    ELSE Take(Tail(frame), Tail(keep))

Range(s) == {s[i] : i \in DOMAIN s}

\* DataFrame.sort_values(["state", "date"]): a stable sort on the key.
KeyLess(a, b) == StrLess(a.state, b.state) \/ (a.state = b.state /\ a.date < b.date)

RECURSIVE InsertSorted(_, _)
InsertSorted(r, s) ==
    IF s = <<>> THEN <<r>>
    ELSE IF KeyLess(r, Head(s)) THEN <<r>> \o s
    ELSE <<Head(s)>> \o InsertSorted(r, Tail(s))

RECURSIVE sort_values(_)
sort_values(s) ==
    IF s = <<>> THEN <<>>
    ELSE InsertSorted(s[Len(s)], sort_values(SubSeq(s, 1, Len(s) - 1)))

Ok(table) == [err |-> "none", table |-> table]
Raise(e) == [err |-> e, table |-> <<>>]

----------------------------------------------------------------------------
(* load_zhvi_data                                                           *)

RegionName == <<"R", "e", "g", "i", "o", "n", "N", "a", "m", "e">>

\* col.startswith("20")
startswith20(col) == Len(col) >= 2 /\ col[1] = "2" /\ col[2] = "0"

date_columns(cols) == Take(cols, [i \in 1..Len(cols) |-> startswith20(cols[i])])

ColIndex(cols, c) == CHOOSE i \in 1..Len(cols) : cols[i] = c

\* pd.read_csv of one numeric cell: an empty cell is NaN.
read_cell(c) == IF IsNone(c) THEN NaN ELSE Float(Get(c))

\* DataFrame.melt: column by column, and within a column row by row.
RECURSIVE melt(_, _)
melt(raw, dcols) ==
    IF dcols = <<>> THEN <<>>
    ELSE [i \in 1..Len(raw.rows) |->
              [state |-> raw.rows[i].RegionName,
               date  |-> Head(dcols),
               median_home_value |->
                   read_cell(raw.rows[i].cells[ColIndex(raw.cols, Head(dcols))])]]
         \o melt(raw, Tail(dcols))

\* df_long["date"] = pd.to_datetime(df_long["date"]), then dropna on the value
parse_dates(m) == [i \in 1..Len(m) |-> [m[i] EXCEPT !.date = to_datetime(m[i].date)]]
\* load_zhvi_data without its dropna
dropna_skipped(m) == m

dropna(m) == Take(m, [i \in 1..Len(m) |-> ~isnull(m[i].median_home_value)])

load_zhvi_data(f) ==
    IF f.kind = "missing" THEN Raise("FileNotFoundError")
    ELSE IF f.kind = "unreadable" THEN Raise("PermissionError")
    ELSE LET dcols == date_columns(f.cols)
             m == melt(f, dcols)
         IN  IF RegionName \notin Range(f.cols) THEN Raise("KeyError")
             ELSE IF \E i \in 1..Len(m) : ~CanParse(m[i].date) THEN Raise("ValueError")
             ELSE Ok(sort_values(dropna(parse_dates(m))))

----------------------------------------------------------------------------
(* get_states, filter_data, add_yoy_change, add_state_codes                 *)

\* sorted(df["state"].unique().tolist())
get_states(frame) ==
    LET S == {frame[i].state : i \in DOMAIN frame}
    IN  Take(NameOrder, [i \in 1..Len(NameOrder) |-> NameOrder[i] \in S])

\* Python truthiness of an optional list or string: None, [] and "" are false.
Truthy(o) == ~IsNone(o) /\ Get(o) # <<>>

\* filter_data with the lower bound exclusive (">" for ">=")
from_date_strict(frame, d) == Take(frame, [i \in 1..Len(frame) |-> frame[i].date > d])

isin(frame, states) == Take(frame, [i \in 1..Len(frame) |-> frame[i].state \in Range(states)])
from_date(frame, d) == Take(frame, [i \in 1..Len(frame) |-> frame[i].date >= d])
to_date(frame, d) == Take(frame, [i \in 1..Len(frame) |-> frame[i].date <= d])

filter_data(frame, states, start_date, end_date) ==
    LET f1 == IF Truthy(states) THEN isin(frame, Get(states)) ELSE frame
        f2 == IF Truthy(start_date) THEN from_date(f1, to_datetime(Get(start_date))) ELSE f1
        f3 == IF Truthy(end_date) THEN to_date(f2, to_datetime(Get(end_date))) ELSE f2
    IN  IF \/ Truthy(start_date) /\ ~CanParse(Get(start_date))
           \/ Truthy(end_date) /\ ~CanParse(Get(end_date))
        THEN Raise("ValueError")
        ELSE Ok(f3)

\* pct_change(periods=12)
Periods == 12

\* The rows of the frame that groupby("state") puts in row i's group, as row
\* numbers in the order of the frame, up to and including i.
GroupUpTo(frame, i) == Take([j \in 1..i |-> j], [j \in 1..i |-> frame[j].state = frame[i].state])

\* pct_change(periods=11): an off-by-one in the period
pct_change_11(frame, i) ==
    LET g == GroupUpTo(frame, i)
    IN  IF Len(g) <= Periods - 1 THEN NaN
        ELSE FMul(FSub(FDiv(frame[i].median_home_value,
                            frame[g[Len(g) - (Periods - 1)]].median_home_value), 1), 100)

\* pct_change() with the default periods=1
pct_change_1(frame, i) ==
    LET g == GroupUpTo(frame, i)
    IN  IF Len(g) <= 1 THEN NaN
        ELSE FMul(FSub(FDiv(frame[i].median_home_value,
                            frame[g[Len(g) - 1]].median_home_value), 1), 100)

\* pct_change(periods=12) without the "- 1": the ratio, not the change
pct_change_ratio(frame, i) ==
    LET g == GroupUpTo(frame, i)
    IN  IF Len(g) <= Periods THEN NaN
        ELSE FMul(FDiv(frame[i].median_home_value,
                       frame[g[Len(g) - Periods]].median_home_value), 100)

\* df["median_home_value"].pct_change(periods=12) without the groupby
pct_change_ungrouped(frame, i) ==
    IF i <= Periods THEN NaN
    ELSE FMul(FSub(FDiv(frame[i].median_home_value,
                        frame[i - Periods].median_home_value), 1), 100)

\* groupby("state")["median_home_value"].pct_change(periods=12) * 100 at row i
pct_change(frame, i) ==
    LET g == GroupUpTo(frame, i)
    IN  IF Len(g) <= Periods THEN NaN
        ELSE FMul(FSub(FDiv(frame[i].median_home_value,
                            frame[g[Len(g) - Periods]].median_home_value), 1), 100)

add_yoy_change(frame) ==
    Ok([i \in 1..Len(frame) |-> [yoy_change |-> pct_change(frame, i)] @@ frame[i]])

\* a lookup STATE_CODES[name] per row, which raises on a name it lacks
add_state_codes_strict(frame) ==
    IF \E i \in 1..Len(frame) : frame[i].state \notin DOMAIN STATE_CODES
    THEN Raise("KeyError")
    ELSE Ok([i \in 1..Len(frame) |-> [state_code |-> STATE_CODES[frame[i].state]] @@ frame[i]])

\* df["state"].map(STATE_CODES)
add_state_codes(frame) ==
    Ok([i \in 1..Len(frame) |->
          [state_code |-> IF frame[i].state \in DOMAIN STATE_CODES
                          THEN STATE_CODES[frame[i].state] ELSE NaNCode] @@ frame[i]])

----------------------------------------------------------------------------
(* The inputs the model draws from.                                         *)

\* The i-th month-end of the calendar of the model's files: 2001-11-30,
\* 2001-12-31, 2002-01-31, ...
Month(i) ==
    LET k == 10 + (i - 1)
        y == 2001 + (k \div 12)
        m == (k % 12) + 1
    IN  MkDate(y, m, DaysIn(y, m))

RegionPairs == {<<"California", "New York">>, <<"New York", "New Yrok">>}

\* The value of region r in month i: the values of months 1, 2 and 13 are
\* chosen (a, a and b), so that a row and the row 12 before it vary.
Val(r, i, a, b) ==
    IF i \in {1, 2} THEN a ELSE IF i = 13 THEN b ELSE 100 + i + 10 * NameRank(r)

Block(r, n, a, b) ==
    [i \in 1..n |-> [state |-> r, date |-> Month(i), median_home_value |-> Float(Val(r, i, a, b))]]

Reverse(s) == [i \in 1..Len(s) |-> s[Len(s) + 1 - i]]

\* Long tables with unique (state, date) rows: two regions' blocks, sorted
\* by (state, date), or reversed, or with the second block after the first
\* row of the first.
Tables ==
    { LET b1 == Block(p[1], n1, a, b)
          b2 == Block(p[2], n2, a, b)
      IN  CASE o = "sorted" -> b1 \o b2
            [] o = "reversed" -> Reverse(b1 \o b2)
            [] o = "interleaved" ->
                 IF b1 = <<>> THEN b2 ELSE <<Head(b1)>> \o b2 \o Tail(b1)
      : p \in RegionPairs, n1 \in 0..MaxRows, n2 \in 0..MaxRows2,
        a \in {0, 100}, b \in {0, 110}, o \in {"sorted", "reversed", "interleaved"} }

SizeRank == <<"S", "i", "z", "e", "R", "a", "n", "k">>
\* A column of the year 1999, and a column that is no date but starts with "20".
Col1999 == IsoName(MkDate(1999, 12, 31))
Col20xx == <<"2", "0", "x", "x">>

\* A raw row: the RegionName cell and one optional number per column (the
\* cell under RegionName itself is not a number and is left None); hole is
\* the cell of the first month, which may be missing.
RawRow(r, cols, hole) ==
    [RegionName |-> r,
     cells |-> [j \in 1..Len(cols) |->
                  IF cols[j] = RegionName THEN None
                  ELSE IF cols[j] = SizeRank THEN Some(NameRank(r))
                  ELSE IF cols[j] = Col1999 THEN Some(90)
                  ELSE IF cols[j] = Col20xx THEN Some(20)
                  ELSE IF cols[j] = IsoName(Month(1)) THEN hole
                  ELSE Some(100 + j + 10 * NameRank(r))]]

\* A raw table; hole is the first month's cell of its first row.
Csv(cols, regions, hole) ==
    [kind |-> "csv", cols |-> cols,
     rows |-> [i \in 1..Len(regions) |->
                  RawRow(regions[i], cols, IF i = 1 THEN hole ELSE Some(100))]]

MonthCols(n) == [i \in 1..n |-> IsoName(Month(i))]

\* region = ["X"], 2020-01-31 = 100, 2021-01-31 = 110
ScenarioFile ==
    [kind |-> "csv",
     cols |-> <<RegionName, IsoName(MkDate(2020, 1, 31)), IsoName(MkDate(2021, 1, 31))>>,
     rows |-> << [RegionName |-> "X", cells |-> <<None, Some(100), Some(110)>>] >>]

Missing == [kind |-> "missing"]
Unreadable == [kind |-> "unreadable"]

CsvFiles ==
    { Csv(<<SizeRank, RegionName>> \o odd \o MonthCols(n), regions, hole)
      : odd \in {<<>>, <<Col1999>>, <<Col20xx>>}, n \in 0..MaxRows,
        regions \in {<<>>, <<"X">>, <<"New York", "California">>, <<"X", "X">>},
        hole \in {None, Some(0), Some(100)} }
    \cup { Csv(<<SizeRank>> \o MonthCols(2), <<"X">>, None), ScenarioFile }

Files == {Missing, Unreadable} \cup CsvFiles

StatesArgs == {None, Some(<<>>), Some(<<"New York">>), Some(<<"New Yrok", "California">>)}
StartArgs == {None, Some(<<>>), Some(IsoName(Month(2))), Some(StrOfDatetime(Month(3)))}
EndArgs == {None, Some(IsoName(Month(13))), Some(IsoName(Month(1)))}

NoArgs == [states |-> None, start_date |-> None, end_date |-> None]

----------------------------------------------------------------------------
(* A session with the library: a file to load or a long table in hand, and  *)
(* the functions of data_loader.py applied to it.                           *)

AppIdle ==
    /\ pc = "idle" /\ df = Ok(<<>>) /\ selection = NoArgs
    /\ filtered_df = <<>> /\ yoy_df = <<>> /\ trail = <<>>

AppUnchanged == UNCHANGED <<pc, df, selection, filtered_df, yoy_df, trail>>

Init ==
    /\ \/ file \in Files /\ t = <<>> /\ stage = "file"
       \/ file = Missing /\ t \in Tables /\ stage = "long"
    /\ args = NoArgs
    /\ given = <<>>
    /\ result = Ok(t)
    /\ AppIdle

Load ==
    /\ stage = "file"
    /\ result' = load_zhvi_data(file)
    /\ stage' = IF result'.err = "none" THEN "loaded" ELSE "failed"
    /\ t' = result'.table
    /\ UNCHANGED <<file, args, given>>
    /\ AppUnchanged

Filter(states, start_date, end_date) ==
    /\ stage = "long"
    /\ args' = [states |-> states, start_date |-> start_date, end_date |-> end_date]
    /\ given' = t
    /\ result' = filter_data(t, states, start_date, end_date)
    /\ stage' = "filtered"
    /\ UNCHANGED <<file, t>>
    /\ AppUnchanged

Yoy ==
    /\ stage \in {"long", "loaded", "filtered"}
    /\ given' = result.table
    /\ result' = add_yoy_change(result.table)
    /\ stage' = CASE stage = "long" -> "yoy"
                  [] stage = "loaded" -> "loaded_yoy"
                  [] stage = "filtered" -> "filtered_yoy"
    /\ UNCHANGED <<file, t, args>>
    /\ AppUnchanged

Codes ==
    /\ stage \in {"long", "loaded"}
    /\ given' = result.table
    /\ result' = add_state_codes(result.table)
    /\ stage' = "enriched"
    /\ UNCHANGED <<file, t, args>>
    /\ AppUnchanged

Next ==
    \/ Load
    \/ \E s \in StatesArgs, a \in StartArgs, b \in EndArgs : Filter(s, a, b)
    \/ Yoy
    \/ Codes

Spec == Init /\ [][Next]_vars

----------------------------------------------------------------------------
(* One run of the script app.py.                                            *)

LibIdle ==
    /\ t = <<>> /\ stage = "idle" /\ args = NoArgs /\ given = <<>> /\ result = Ok(<<>>)

LibUnchanged == UNCHANGED <<t, stage, args, given, result>>

AppInit ==
    /\ file \in Files
    /\ LibIdle
    /\ pc = "load"
    /\ df = Ok(<<>>)
    /\ selection = [selected_states |-> <<>>, date_range |-> <<>>]
    /\ filtered_df = <<>> /\ yoy_df = <<>> /\ trail = <<>>

\* an except clause that shows the message and lacks the st.stop()
on_file_not_found_no_stop == [pc |-> "sidebar", trail |-> <<"st.error">>]

\* except FileNotFoundError: st.error(...); st.stop()
on_file_not_found == [pc |-> "stopped", trail |-> <<"st.error", "st.stop">>]

\* try: df = get_data() / except FileNotFoundError: ...
\* Any other exception is not caught and ends the run.
AppGetData ==
    /\ pc = "load"
    /\ df' = load_zhvi_data(file)
    /\ IF df'.err = "FileNotFoundError"
       THEN /\ pc' = on_file_not_found.pc
            /\ trail' = <<"get_data">> \o on_file_not_found.trail
       ELSE /\ pc' = IF df'.err = "none" THEN "sidebar" ELSE "crashed"
            /\ trail' = <<"get_data">>
    /\ UNCHANGED <<file, selection, filtered_df, yoy_df>>
    /\ LibUnchanged

\* pd.Timestamp("2002-01-01"), the slider's default lower value
DefaultStart == MkDate(2002, 1, 1)

MinDate(frame) == CHOOSE d \in {frame[i].date : i \in 1..Len(frame)} :
                      \A i \in 1..Len(frame) : d <= frame[i].date
MaxDate(frame) == CHOOSE d \in {frame[i].date : i \in 1..Len(frame)} :
                      \A i \in 1..Len(frame) : d >= frame[i].date

\* The sidebar: the multiselect returns a sublist of get_states(df) and the
\* slider a range within [min_date, max_date].  The ranges drawn here are
\* the whole range, the default (from 2002-01-01), and the first date alone.
\* An empty df (or none, had the run gone on after a failed load) has no
\* min_date to give the slider, and the run ends with an exception.
AppSidebar ==
    /\ pc = "sidebar"
    /\ IF df.err # "none" \/ df.table = <<>>
       THEN /\ pc' = "crashed"
            /\ UNCHANGED selection
       ELSE LET all_states == get_states(df.table)
                lo == MinDate(df.table)
                hi == MaxDate(df.table)
            IN  /\ \E S \in SUBSET Range(all_states) :
                   \E r \in {<<lo, hi>>, <<lo, lo>>}
                            \cup (IF lo <= DefaultStart /\ DefaultStart <= hi
                                  THEN {<<DefaultStart, hi>>} ELSE {}) :
                       selection' =
                           [selected_states |-> Take(all_states, [i \in 1..Len(all_states) |-> all_states[i] \in S]),
                            date_range |-> r]
                /\ pc' = "filter"
    /\ trail' = Append(trail, "sidebar")
    /\ UNCHANGED <<file, df, filtered_df, yoy_df>>
    /\ LibUnchanged

\* filtered_df = filter_data(df, states=selected_states if selected_states
\* else None, start_date=str(date_range[0]), end_date=str(date_range[1]))
AppFilter ==
    /\ pc = "filter"
    /\ filtered_df' =
           filter_data(df.table,
                       IF selection.selected_states # <<>>
                       THEN Some(selection.selected_states) ELSE None,
                       Some(StrOfDatetime(selection.date_range[1])),
                       Some(StrOfDatetime(selection.date_range[2]))).table
    /\ pc' = "check"
    /\ trail' = Append(trail, "filter_data")
    /\ UNCHANGED <<file, df, selection, yoy_df>>
    /\ LibUnchanged

\* if filtered_df.empty: st.warning(...); st.stop()
AppCheckEmpty ==
    /\ pc = "check"
    /\ IF filtered_df = <<>>
       THEN pc' = "stopped" /\ trail' = trail \o <<"st.warning", "st.stop">>
       ELSE pc' = "charts" /\ trail' = trail
    /\ UNCHANGED <<file, df, selection, filtered_df, yoy_df>>
    /\ LibUnchanged

\* The trend chart, the snapshot metrics and the bar chart.
AppCharts ==
    /\ pc = "charts"
    /\ pc' = "yoy"
    /\ trail' = Append(trail, "render")
    /\ UNCHANGED <<file, df, selection, filtered_df, yoy_df>>
    /\ LibUnchanged

\* yoy_df = add_yoy_change(filtered_df), its chart and the footer
AppYoy ==
    /\ pc = "yoy"
    /\ yoy_df' = add_yoy_change(filtered_df).table
    /\ pc' = "done"
    /\ trail' = trail \o <<"add_yoy_change", "render">>
    /\ UNCHANGED <<file, df, selection, filtered_df>>
    /\ LibUnchanged

AppNext ==
    \/ AppGetData
    \/ AppSidebar
    \/ AppFilter
    \/ AppCheckEmpty
    \/ AppCharts
    \/ AppYoy

AppSpec == AppInit /\ [][AppNext]_vars

----------------------------------------------------------------------------
(* Properties of the functions and of the script.                           *)

\* The number of the row i within its region, counting the rows of the
\* table in their order (1 for the region's first row).
PosInRegion(tbl, i) == Cardinality({j \in 1..i : tbl[j].state = tbl[i].state})

\* The number of the row i within its region's date-ascending sequence.
DateRank(tbl, i) ==
    Cardinality({j \in 1..Len(tbl) : tbl[j].state = tbl[i].state /\ tbl[j].date <= tbl[i].date})

UniqueRows(tbl) ==
    \A i, j \in 1..Len(tbl) :
        i # j => ~(tbl[i].state = tbl[j].state /\ tbl[i].date = tbl[j].date)

SortedTable(tbl) == \A i \in 1..Len(tbl) - 1 : ~KeyLess(tbl[i + 1], tbl[i])

DateAscending(tbl) ==
    \A i, j \in 1..Len(tbl) :
        (i < j /\ tbl[i].state = tbl[j].state) => tbl[i].date < tbl[j].date

\* (value_t - value_prev) / value_prev * 100
YoyFormula(cur, prev) ==
    FMul(FDiv(Fin(cur.n * prev.d - prev.n * cur.d, cur.d * prev.d), prev), 100)

YoyDone == stage \in {"yoy", "loaded_yoy", "filtered_yoy"}

\* The date an argument of the model's StartArgs and EndArgs names.
ArgDate(o) ==
    CHOOSE d \in {Month(i) : i \in 1..MaxRows + 1} : IsoName(d) = SubSeq(Get(o), 1, 10)

Absent(o) == o = None \/ Get(o) = <<>>

\* C3: filter_data returns, in the order of its input, exactly the rows
\* whose region is in the list (every region when the list is empty or
\* absent) and whose date lies within the inclusive bounds (an absent bound
\* is open), and raises nothing, also when no row is left.
C3_FilterExact ==
    stage = "filtered" =>
        LET Keeps(r) ==
                /\ Absent(args.states) \/ \E k \in DOMAIN Get(args.states) : Get(args.states)[k] = r.state
                /\ Absent(args.start_date) \/ ArgDate(args.start_date) <= r.date
                /\ Absent(args.end_date) \/ r.date <= ArgDate(args.end_date)
        IN  /\ result.err = "none"
            /\ result.table = SelectSeq(given, Keeps)
            /\ (Absent(args.states) /\ Absent(args.start_date) /\ Absent(args.end_date))
                   => result.table = given

\* A filter by region and by both bounds that keeps a row dated exactly at
\* the lower bound and one dated exactly at the upper bound, and drops rows.
C3_Witness ==
    /\ stage = "filtered"
    /\ ~Absent(args.states) /\ ~Absent(args.start_date) /\ ~Absent(args.end_date)
    /\ \E i \in 1..Len(result.table) : result.table[i].date = ArgDate(args.start_date)
    /\ \E i \in 1..Len(result.table) : result.table[i].date = ArgDate(args.end_date)
    /\ Len(result.table) < Len(given)
    /\ \E i \in 1..Len(given) : given[i].state \notin Range(Get(args.states))

\* C4: on a table sorted by (state, date), add_yoy_change returns as many
\* rows as it was given, and the first 12 rows of each region have a null
\* yoy_change.
C4_RowsAndNulls ==
    (YoyDone /\ SortedTable(given)) =>
        /\ result.err = "none"
        /\ Len(result.table) = Len(given)
        /\ \A i \in 1..Len(result.table) :
               PosInRegion(result.table, i) <= 12 => isnull(result.table[i].yoy_change)

\* Two regions, one of them with a 13th row, whose yoy_change is not null.
C4_Witness ==
    /\ YoyDone /\ SortedTable(given)
    /\ \E i, j \in 1..Len(result.table) :
          /\ result.table[i].state # result.table[j].state
          /\ PosInRegion(result.table, i) = 13
          /\ ~isnull(result.table[i].yoy_change)

\* The record of row i's region exactly 12 positions before row i in the
\* region's date-ascending sequence (rows are unique by (state, date)).
TwelveBack(tbl, i) ==
    CHOOSE j \in 1..Len(tbl) :
        /\ tbl[j].state = tbl[i].state
        /\ Cardinality({k \in 1..Len(tbl) :
               /\ tbl[k].state = tbl[i].state
               /\ tbl[j].date < tbl[k].date /\ tbl[k].date <= tbl[i].date}) = 12

YoyByDate(tbl, out) ==
    \A i \in 1..Len(tbl) :
        DateRank(tbl, i) > 12 =>
            /\ out[i].state = tbl[i].state /\ out[i].date = tbl[i].date
            /\ out[i].yoy_change =
                   YoyFormula(tbl[i].median_home_value, tbl[TwelveBack(tbl, i)].median_home_value)

\* C5 as claimed: for unique (state, date) rows in whatever order, each
\* record at position t >= 12 of its region's date-ascending sequence gets
\* (value_t - value_{t-12}) / value_{t-12} * 100.
C5_AnyOrder ==
    (YoyDone /\ UniqueRows(given)) => YoyByDate(given, result.table)

\* C5 as amended: the same, for tables in which the rows of each region
\* stand in date-ascending order (the order load_zhvi_data returns and
\* filter_data keeps), the regions interleaved or not.
C5_DateAscending ==
    (YoyDone /\ UniqueRows(given) /\ DateAscending(given)) => YoyByDate(given, result.table)

\* A table with its regions interleaved and a record at position 12
\* (counting from 0) whose yoy_change is a number.
C5_Witness ==
    /\ YoyDone /\ UniqueRows(given) /\ DateAscending(given) /\ ~SortedTable(given)
    /\ \E i \in 1..Len(given) :
          DateRank(given, i) > 12 /\ result.table[i].yoy_change.k = "fin"

\* C7: add_state_codes keeps every row (count, order, state, date, value)
\* and never raises; a region of the registry gets its code, and a region
\* the registry lacks gets the null marker.
C7_CodesLeftJoin ==
    stage = "enriched" =>
        /\ result.err = "none"
        /\ Len(result.table) = Len(given)
        /\ \A i \in 1..Len(given) :
              LET r == result.table[i]
              IN  /\ r.state = given[i].state
                  /\ r.date = given[i].date
                  /\ r.median_home_value = given[i].median_home_value
                  /\ r.state = "California" => r.state_code = "CA"
                  /\ r.state = "New York" => r.state_code = "NY"
                  /\ r.state \in {"New Yrok", "X"} => r.state_code = NaNCode

\* A table with a region of the registry and a misspelt one.
C7_Witness ==
    /\ stage = "enriched"
    /\ \E i, j \in 1..Len(result.table) :
          /\ result.table[i].state = "New York" /\ result.table[i].state_code = "NY"
          /\ result.table[j].state = "New Yrok" /\ result.table[j].state_code = NaNCode

\* The row of row i's region 12 rows before it, in the order of the table.
PrevRow(tbl, i) ==
    CHOOSE j \in 1..i :
        /\ tbl[j].state = tbl[i].state
        /\ Cardinality({k \in (j + 1)..i : tbl[k].state = tbl[i].state}) = 12

ZeroDenominator(tbl, i) ==
    /\ PosInRegion(tbl, i) > 12
    /\ tbl[PrevRow(tbl, i)].median_home_value = Float(0)

\* C9: the rows whose record 12 positions earlier has the value zero all get
\* an outcome of one kind: never a null for one and a non-null result for
\* another (the code raises for none of them).
C9_UniformZeroPolicy ==
    (YoyDone /\ SortedTable(given)) =>
        \A i, j \in 1..Len(given) :
            (ZeroDenominator(given, i) /\ ZeroDenominator(given, j)) =>
                (isnull(result.table[i].yoy_change) <=> isnull(result.table[j].yoy_change))

\* C10: on a sorted table with unique rows, filtering first and computing
\* the change second gives every row with a non-null yoy_change the
\* yoy_change its (state, date) has when the change is computed on the
\* whole table; the first 12 retained rows of each region are null, and
\* every later retained row has the whole table's yoy_change.
C10_FilterThenYoy ==
    (stage = "filtered_yoy" /\ SortedTable(t) /\ UniqueRows(t)) =>
        LET whole == add_yoy_change(t).table
            SameAsWhole(r) ==
                \E j \in 1..Len(whole) :
                    /\ whole[j].state = r.state /\ whole[j].date = r.date
                    /\ whole[j].yoy_change = r.yoy_change
        IN  \A i \in 1..Len(result.table) :
                /\ ~isnull(result.table[i].yoy_change) => SameAsWhole(result.table[i])
                /\ PosInRegion(result.table, i) <= 12 => isnull(result.table[i].yoy_change)
                /\ PosInRegion(result.table, i) > 12 => SameAsWhole(result.table[i])

\* A filter with a lower bound that drops rows, after which one row has a
\* non-null yoy_change and another is null where the whole table's is not.
C10_Witness ==
    /\ stage = "filtered_yoy" /\ SortedTable(t) /\ UniqueRows(t)
    /\ ~Absent(args.start_date) /\ Len(given) < Len(t)
    /\ \E i \in 1..Len(result.table) : ~isnull(result.table[i].yoy_change)
    /\ \E i \in 1..Len(result.table), j \in 1..Len(t) :
          /\ t[j].state = result.table[i].state /\ t[j].date = result.table[i].date
          /\ isnull(result.table[i].yoy_change)
          /\ ~isnull(add_yoy_change(t).table[j].yoy_change)

\* A column name that begins with a 4-digit year.
HasYearPrefix(col) == Len(col) >= 4 /\ \A k \in 1..4 : IsDigit(col[k])

\* The date a date column of the model's files names.
ColDate(col) ==
    CHOOSE d \in {Month(i) : i \in 1..MaxRows + 1}
                 \cup {MkDate(1999, 12, 31), MkDate(2020, 1, 31), MkDate(2021, 1, 31)} :
        IsoName(d) = col

\* The (row, column) pairs of a raw table whose column satisfies IsDateCol
\* and whose cell is not missing.
Cells(raw, IsDateCol(_)) ==
    {p \in (1..Len(raw.rows)) \X (1..Len(raw.cols)) :
        IsDateCol(raw.cols[p[2]]) /\ ~IsNone(raw.rows[p[1]].cells[p[2]])}

OneRecordPerCell(raw, tbl, IsDateCol(_)) ==
    /\ Len(tbl) = Cardinality(Cells(raw, IsDateCol))
    /\ \A p \in Cells(raw, IsDateCol) :
          \E i \in 1..Len(tbl) :
              /\ tbl[i].state = raw.rows[p[1]].RegionName
              /\ tbl[i].date = ColDate(raw.cols[p[2]])
              /\ tbl[i].median_home_value = Float(Get(raw.rows[p[1]].cells[p[2]]))

\* C1: the table load_zhvi_data returns holds exactly one record for every
\* (row, column) pair whose column name begins with a 4-digit year and
\* whose cell is not missing, and no other record.
C1_YearPrefixColumns ==
    stage = "loaded" => OneRecordPerCell(file, t, HasYearPrefix)

OneRowPerRegion(raw) ==
    \A i, j \in 1..Len(raw.rows) : i # j => raw.rows[i].RegionName # raw.rows[j].RegionName

\* C2: for a raw table with one row per region, the table load_zhvi_data
\* returns has no two rows with the same (state, date) and no null value.
C2_UniqueNoNull ==
    (stage = "loaded" /\ OneRowPerRegion(file)) =>
        /\ UniqueRows(t)
        /\ \A i \in 1..Len(t) : ~isnull(t[i].median_home_value)

\* A raw table of two regions with a missing cell under a date column.
C2_Witness ==
    /\ stage = "loaded" /\ OneRowPerRegion(file)
    /\ Len(file.rows) = 2 /\ Len(t) >= 3
    /\ \E j \in 1..Len(file.cols) :
          startswith20(file.cols[j]) /\ IsNone(file.rows[1].cells[j])

ScenarioRow(tbl) == CHOOSE i \in 1..Len(tbl) : tbl[i].date = MkDate(2021, 1, 31)

\* C6 as claimed: for region X with 2020-01-31 = 100 and 2021-01-31 = 110,
\* load and add_yoy_change give the row of 2021-01-31 the yoy_change 10.
C6_ScenarioIsTen ==
    (stage = "loaded_yoy" /\ file = ScenarioFile) =>
        /\ \E i \in 1..Len(result.table) : result.table[i].date = MkDate(2021, 1, 31)
        /\ result.table[ScenarioRow(result.table)].yoy_change = Float(10)

\* C6 as amended: there the row of 2021-01-31 is the second of the two rows
\* of its region and its yoy_change is null.
C6_ScenarioIsNull ==
    (stage = "loaded_yoy" /\ file = ScenarioFile) =>
        /\ Len(result.table) = 2
        /\ \E i \in 1..Len(result.table) : result.table[i].date = MkDate(2021, 1, 31)
        /\ result.table[ScenarioRow(result.table)].state = "X"
        /\ result.table[ScenarioRow(result.table)].median_home_value = Float(110)
        /\ isnull(result.table[ScenarioRow(result.table)].yoy_change)

C6_Witness == stage = "loaded_yoy" /\ file = ScenarioFile /\ result.err = "none"

Ran(step) == \E k \in 1..Len(trail) : trail[k] = step

\* C8 as claimed: a file that cannot be located or cannot be read makes
\* load_zhvi_data fail with FileNotFoundError.
C8_MissingOrUnreadable ==
    (pc # "load" /\ file.kind \in {"missing", "unreadable"}) =>
        df.err = "FileNotFoundError"

\* C8 as amended: a file that does not exist makes load_zhvi_data fail with
\* FileNotFoundError and return no table; no other failure gives that error
\* (an unreadable file gives PermissionError, a malformed date column name
\* ValueError); and the script, on catching FileNotFoundError, stops before
\* the sidebar, filter_data, add_yoy_change or any chart runs.
C8_NotFoundStops ==
    pc # "load" =>
        /\ file.kind = "missing" => (df.err = "FileNotFoundError" /\ df.table = <<>>)
        /\ df.err = "FileNotFoundError" => file.kind = "missing"
        /\ file.kind = "unreadable" => df.err = "PermissionError"
        /\ (/\ file.kind = "csv"
            /\ file.rows # <<>>
            /\ \E j \in 1..Len(file.cols) : file.cols[j] = Col20xx) => df.err = "ValueError"
        /\ df.err = "FileNotFoundError" =>
              /\ pc = "stopped"
              /\ trail = <<"get_data", "st.error", "st.stop">>
              /\ ~Ran("sidebar") /\ ~Ran("filter_data")
              /\ ~Ran("add_yoy_change") /\ ~Ran("render")

\* The file is absent and the script has caught the error and stopped.
C8_Witness ==
    /\ file.kind = "missing" /\ pc = "stopped"
    /\ df.err = "FileNotFoundError" /\ Ran("st.stop")

============================================================================
